---- MODULE Spec2Model ----
(***************************************************************************)
(* Task store of SistemaGestionTareas: the Task entity (src/src/task.py)   *)
(* and the TaskManager (src/src/task_manager.py) with its JSON file        *)
(* persistence.                                                            *)
(*                                                                         *)
(* Strings are sequences of one-character strings, so that strip() is      *)
(* computed.  A datetime is a record [s, us] (seconds, microseconds); its  *)
(* ISO text is a token sequence, computed by isoformat and parsed by       *)
(* fromisoformat.  An optional argument is a sequence: <<>> is None and    *)
(* <<v>> is the value v.  A raised exception is the string naming it, ""   *)
(* when the call returned normally.                                        *)
(***************************************************************************)
EXTENDS Integers, Sequences, FiniteSets, TLC

\* ----------------------------------------------------------------- bounds
\* Largest id create_task hands out in the model (the counter is unbounded
\* in the program).
MaxId == 2
\* Last instant of the model's clock.
MaxTime == 1

\* ------------------------------------------------------------ basic values
None == <<>>
Some(v) == <<v>>
IsNone(o) == Len(o) = 0
Val(o) == o[1]

VALID_STATUSES == {"pendiente", "en_progreso", "completada"}

\* str.strip(): drop leading and trailing blanks.
RECURSIVE lstrip(_)
lstrip(s) ==
    IF s # <<>> /\ Head(s) = " " THEN lstrip(Tail(s)) ELSE s

RECURSIVE rstrip(_)
rstrip(s) ==
    IF s # <<>> /\ s[Len(s)] = " " THEN rstrip(SubSeq(s, 1, Len(s) - 1)) ELSE s

strip(s) == rstrip(lstrip(s))

\* datetime.now(): the wall clock always carries microseconds.
Now(clock) == [s |-> clock, us |-> 1]

\* datetime.isoformat(): the fraction is printed only when it is not zero.
isoformat_seconds_only(d) == <<"T", d.s>>

isoformat(d) ==
    IF d.us = 0 THEN <<"T", d.s>> ELSE <<"T", d.s, ".", d.us>>

\* datetime.fromisoformat(): value |-> <<d>> on success, <<>> for ValueError.
IsIsoText(x) ==
    /\ Len(x) \in {2, 4}
    /\ x[1] = "T"

fromisoformat(x) ==
    IF ~IsIsoText(x) THEN None
    ELSE IF Len(x) = 2 THEN Some([s |-> x[2], us |-> 0])
    ELSE Some([s |-> x[2], us |-> x[4]])

\* ------------------------------------------------------------- Task entity
ErrEmptyName == "ValueError: El nombre de la tarea no puede estar vacio"
ErrInvalidStatus == "ValueError: Estado invalido"
ErrKey == "KeyError"
ErrIsoFormat == "ValueError: Invalid isoformat string"

\* Task.__init__ at wall-clock time now: [raised, task]; task is <<>> when
\* the constructor raised.
TaskInit(id, name, description, due_date, status, now) ==
    IF status \notin VALID_STATUSES
    THEN [raised |-> ErrInvalidStatus, task |-> None]
    ELSE [raised |-> "",
          task |-> Some([id |-> id,
                         name |-> name,
                         description |-> description,
                         due_date |-> IF IsNone(due_date) THEN now ELSE Val(due_date),
                         status |-> status,
                         created_at |-> now])]

\* Task.update that empties the description when none is given.
TaskUpdateDropsDescription(task, name, description, due_date, status) ==
    LET t1 == IF IsNone(name) THEN task ELSE [task EXCEPT !.name = Val(name)]
        t2 == IF IsNone(description) THEN [t1 EXCEPT !.description = <<>>]
              ELSE [t1 EXCEPT !.description = Val(description)]
        t3 == IF IsNone(due_date) THEN t2 ELSE [t2 EXCEPT !.due_date = Val(due_date)]
    IN  IF IsNone(status) THEN [raised |-> "", task |-> t3]
        ELSE IF Val(status) \notin VALID_STATUSES
             THEN [raised |-> ErrInvalidStatus, task |-> t3]
             ELSE [raised |-> "", task |-> [t3 EXCEPT !.status = Val(status)]]

\* Task.update without the membership test on the status.
TaskUpdateUnchecked(task, name, description, due_date, status) ==
    LET t1 == IF IsNone(name) THEN task ELSE [task EXCEPT !.name = Val(name)]
        t2 == IF IsNone(description) THEN t1
              ELSE [t1 EXCEPT !.description = Val(description)]
        t3 == IF IsNone(due_date) THEN t2 ELSE [t2 EXCEPT !.due_date = Val(due_date)]
    IN  IF IsNone(status) THEN [raised |-> "", task |-> t3]
        ELSE [raised |-> "", task |-> [t3 EXCEPT !.status = Val(status)]]

\* Task.update: the fields are assigned in the order name, description,
\* due_date, and only then is the status checked, so a call that raises has
\* already assigned the other supplied fields.  [raised, task].
TaskUpdate(task, name, description, due_date, status) ==
    LET t1 == IF IsNone(name) THEN task ELSE [task EXCEPT !.name = Val(name)]
        t2 == IF IsNone(description) THEN t1
              ELSE [t1 EXCEPT !.description = Val(description)]
        t3 == IF IsNone(due_date) THEN t2 ELSE [t2 EXCEPT !.due_date = Val(due_date)]
    IN  IF IsNone(status) THEN [raised |-> "", task |-> t3]
        ELSE IF Val(status) \notin VALID_STATUSES
             THEN [raised |-> ErrInvalidStatus, task |-> t3]
             ELSE [raised |-> "", task |-> [t3 EXCEPT !.status = Val(status)]]

\* Task.to_dict: the record written to the JSON document.
to_dict(task) ==
    [id |-> task.id,
     name |-> task.name,
     description |-> task.description,
     due_date |-> isoformat(task.due_date),
     status |-> task.status,
     created_at |-> isoformat(task.created_at)]

\* Task.from_dict: [raised, task].  A dict is a record whose DOMAIN is the
\* set of keys present.
from_dict(data, now) ==
    IF ~({"id", "name", "due_date", "status", "created_at"} \subseteq DOMAIN data)
    THEN [raised |-> ErrKey, task |-> None]
    ELSE IF IsNone(fromisoformat(data.due_date))
    THEN [raised |-> ErrIsoFormat, task |-> None]
    ELSE LET r == TaskInit(data.id, data.name,
                           IF "description" \in DOMAIN data
                           THEN data.description ELSE <<>>,
                           fromisoformat(data.due_date), data.status, now)
         IN  IF r.raised # "" THEN r
             ELSE IF IsNone(fromisoformat(data.created_at))
             THEN [raised |-> ErrIsoFormat, task |-> None]
             ELSE [raised |-> "",
                   task |-> Some([Val(r.task) EXCEPT
                                  !.created_at = Val(fromisoformat(data.created_at))])]

\* ------------------------------------------------------------ TaskManager
\* The manager's fields are st = [tasks, next_id]; data_file is fixed at
\* construction.  fs maps a path to its content:
\*   [kind |-> "absent"], [kind |-> "garbage"] (not JSON), or
\*   [kind |-> "json", data |-> d] with d a record of the keys present.
data_file == "tasks.json"
backup_file == "tasks_backup.json"
Paths == {data_file, backup_file}

Absent == [kind |-> "absent"]
Garbage == [kind |-> "garbage"]
Json(d) == [kind |-> "json", data |-> d]

\* What the environment does to a file write during a call.
IoOutcomes == {"ok", "open_fails", "write_fails"}

\* filename or self.data_file
\* "filename or self.data_file" taken to be the data file always.
FileToUseDefault(filename) == data_file

FileToUse(filename) ==
    IF IsNone(filename) \/ Val(filename) = "" THEN data_file ELSE Val(filename)

\* TaskManager.get_task_by_id: index of the first task with the id, 0 for None.
RECURSIVE FirstIndex(_, _, _)
FirstIndex(tasks, task_id, i) ==
    IF i > Len(tasks) THEN 0
    ELSE IF tasks[i].id = task_id THEN i
    ELSE FirstIndex(tasks, task_id, i + 1)

get_task_by_id(tasks, task_id) == FirstIndex(tasks, task_id, 1)

\* list.remove at a known position.
RemoveAt(tasks, i) ==
    SubSeq(tasks, 1, i - 1) \o SubSeq(tasks, i + 1, Len(tasks))

\* The document save_to_file builds.
Document(st) ==
    [next_id |-> st.next_id,
     tasks |-> [i \in 1..Len(st.tasks) |-> to_dict(st.tasks[i])]]

\* save_to_file that returns True whatever happened to the write.
save_to_file_always_true(st, fs, filename, io) ==
    LET f == FileToUse(filename)
    IN  CASE io = "ok" -> [fs |-> [fs EXCEPT ![f] = Json(Document(st))], ret |-> TRUE]
          [] io = "open_fails" -> [fs |-> fs, ret |-> TRUE]
          [] OTHER -> [fs |-> [fs EXCEPT ![f] = Garbage], ret |-> TRUE]

\* TaskManager.save_to_file: [fs, ret].  open(..., 'w') failing leaves the
\* file as it was; a failure while json.dump writes leaves a truncated,
\* non-JSON file.  Every exception is caught and turned into False.
save_to_file(st, fs, filename, io) ==
    LET f == FileToUse(filename)
    IN  CASE io = "ok" -> [fs |-> [fs EXCEPT ![f] = Json(Document(st))], ret |-> TRUE]
          [] io = "open_fails" -> [fs |-> fs, ret |-> FALSE]
          [] OTHER -> [fs |-> [fs EXCEPT ![f] = Garbage], ret |-> FALSE]

\* The loop of load_from_file without the "if task.id >= self.next_id" repair.
RECURSIVE LoadRecordsNoRepair(_, _, _)
LoadRecordsNoRepair(recs, st, now) ==
    IF recs = <<>> THEN [st |-> st, ret |-> TRUE]
    ELSE LET r == from_dict(Head(recs), now)
         IN  IF r.raised # "" THEN [st |-> st, ret |-> FALSE]
             ELSE LoadRecordsNoRepair(Tail(recs),
                      [st EXCEPT !.tasks = Append(st.tasks, Val(r.task))], now)

\* The loop of load_from_file over the records still to read: it stops at
\* the first record from_dict rejects, keeping what was appended so far.
\* The loop of load_from_file setting next_id from each record in turn,
\* whatever the counter is.
RECURSIVE LoadRecordsLastId(_, _, _)
LoadRecordsLastId(recs, st, now) ==
    IF recs = <<>> THEN [st |-> st, ret |-> TRUE]
    ELSE LET r == from_dict(Head(recs), now)
         IN  IF r.raised # "" THEN [st |-> st, ret |-> FALSE]
             ELSE LET task == Val(r.task)
                      st1 == [tasks |-> Append(st.tasks, task),
                              next_id |-> task.id + 1]
                  IN  LoadRecordsLastId(Tail(recs), st1, now)

RECURSIVE LoadRecords(_, _, _)
LoadRecords(recs, st, now) ==
    IF recs = <<>> THEN [st |-> st, ret |-> TRUE]
    ELSE LET r == from_dict(Head(recs), now)
         IN  IF r.raised # "" THEN [st |-> st, ret |-> FALSE]
             ELSE LET task == Val(r.task)
                      st1 == [tasks |-> Append(st.tasks, task),
                              next_id |-> IF task.id >= st.next_id
                                          THEN task.id + 1 ELSE st.next_id]
                  IN  LoadRecords(Tail(recs), st1, now)

\* The fields __init__ assigns before it loads.
EmptyStore == [tasks |-> <<>>, next_id |-> 1]

\* load_from_file without the handler for a JSON decoding error.
load_from_file_uncaught(st, fs, filename, now) ==
    LET c == fs[FileToUse(filename)]
    IN  CASE c.kind = "absent" -> [st |-> st, ret |-> TRUE, raised |-> ""]
          [] c.kind = "garbage" -> [st |-> st, ret |-> FALSE, raised |-> "JSONDecodeError"]
          [] OTHER ->
             LET d == c.data
                 st0 == [tasks |-> <<>>,
                         next_id |-> IF "next_id" \in DOMAIN d THEN d.next_id ELSE 1]
                 r == LoadRecords(IF "tasks" \in DOMAIN d THEN d.tasks ELSE <<>>,
                                  st0, now)
             IN  [st |-> r.st, ret |-> r.ret, raised |-> ""]

\* load_from_file counting again from the loaded ids instead of reading the
\* stored counter.
load_from_file_recount(st, fs, filename, now) ==
    LET c == fs[FileToUse(filename)]
    IN  CASE c.kind = "absent" -> [st |-> st, ret |-> TRUE, raised |-> ""]
          [] c.kind = "garbage" -> [st |-> st, ret |-> FALSE, raised |-> ""]
          [] OTHER ->
             LET d == c.data
                 r == LoadRecords(IF "tasks" \in DOMAIN d THEN d.tasks ELSE <<>>,
                                  EmptyStore, now)
             IN  [st |-> r.st, ret |-> r.ret, raised |-> ""]

\* load_from_file without "self.tasks = []": the records are appended to
\* the tasks already held.
load_from_file_appends(st, fs, filename, now) ==
    LET c == fs[FileToUse(filename)]
    IN  CASE c.kind = "absent" -> [st |-> st, ret |-> TRUE, raised |-> ""]
          [] c.kind = "garbage" -> [st |-> st, ret |-> FALSE, raised |-> ""]
          [] OTHER ->
             LET d == c.data
                 st0 == [tasks |-> st.tasks,
                         next_id |-> IF "next_id" \in DOMAIN d THEN d.next_id ELSE 1]
                 r == LoadRecords(IF "tasks" \in DOMAIN d THEN d.tasks ELSE <<>>,
                                  st0, now)
             IN  [st |-> r.st, ret |-> r.ret, raised |-> ""]

\* TaskManager.load_from_file: [st, ret, raised].  json.load raises before
\* any field is assigned; a record that from_dict rejects raises after
\* next_id and tasks were reset and the records before it appended.
load_from_file(st, fs, filename, now) ==
    LET c == fs[FileToUse(filename)]
    IN  CASE c.kind = "absent" -> [st |-> st, ret |-> TRUE, raised |-> ""]
          [] c.kind = "garbage" -> [st |-> st, ret |-> FALSE, raised |-> ""]
          [] OTHER ->
             LET d == c.data
                 st0 == [tasks |-> <<>>,
                         next_id |-> IF "next_id" \in DOMAIN d THEN d.next_id ELSE 1]
                 r == LoadRecords(IF "tasks" \in DOMAIN d THEN d.tasks ELSE <<>>,
                                  st0, now)
             IN  [st |-> r.st, ret |-> r.ret, raised |-> ""]

\* TaskManager.__init__: a fresh object, then load_from_file().
TaskManagerInit(fs, now) == load_from_file(EmptyStore, fs, None, now)

\* The id create_task gives the new task: id=self.next_id.
NewIdByLength(st) == Len(st.tasks) + 1

NewId(st) == st.next_id

\* create_task with the counter advanced before the arguments are checked.
create_task_counts_first(st, fs, name, description, due_date, status, now, io) ==
    LET st0 == [st EXCEPT !.next_id = @ + 1]
    IN  IF strip(name) = <<>>
        THEN [st |-> st0, fs |-> fs, raised |-> ErrEmptyName, id |-> 0, io |-> "none"]
        ELSE LET r == TaskInit(st.next_id, strip(name), strip(description),
                               Some(IF IsNone(due_date) THEN now ELSE Val(due_date)),
                               status, now)
             IN  IF r.raised # ""
                 THEN [st |-> st0, fs |-> fs, raised |-> r.raised, id |-> 0,
                       io |-> "none"]
                 ELSE LET st1 == [st0 EXCEPT !.tasks = Append(@, Val(r.task))]
                      IN  [st |-> st1,
                           fs |-> save_to_file(st1, fs, None, io).fs,
                           raised |-> "",
                           id |-> Val(r.task).id,
                           io |-> io]

\* create_task that puts the new task at the head of the list.
create_task_prepends(st, fs, name, description, due_date, status, now, io) ==
    IF strip(name) = <<>>
    THEN [st |-> st, fs |-> fs, raised |-> ErrEmptyName, id |-> 0, io |-> "none"]
    ELSE LET r == TaskInit(NewId(st), strip(name), strip(description),
                           Some(IF IsNone(due_date) THEN now ELSE Val(due_date)),
                           status, now)
         IN  IF r.raised # ""
             THEN [st |-> st, fs |-> fs, raised |-> r.raised, id |-> 0, io |-> "none"]
             ELSE LET st1 == [tasks |-> <<Val(r.task)>> \o st.tasks,
                              next_id |-> st.next_id + 1]
                  IN  [st |-> st1,
                       fs |-> save_to_file(st1, fs, None, io).fs,
                       raised |-> "",
                       id |-> Val(r.task).id,
                       io |-> io]

\* TaskManager.create_task: [st, fs, raised, id, io].  id is the id of the
\* returned task (0 when the call raised); io is the outcome of the file
\* write the call attempted, "none" when it attempted none.
create_task(st, fs, name, description, due_date, status, now, io) ==
    IF strip(name) = <<>>
    THEN [st |-> st, fs |-> fs, raised |-> ErrEmptyName, id |-> 0, io |-> "none"]
    ELSE LET r == TaskInit(NewId(st), strip(name), strip(description),
                           Some(IF IsNone(due_date) THEN now ELSE Val(due_date)),
                           status, now)
         IN  IF r.raised # ""
             THEN [st |-> st, fs |-> fs, raised |-> r.raised, id |-> 0, io |-> "none"]
             ELSE LET st1 == [tasks |-> Append(st.tasks, Val(r.task)),
                              next_id |-> st.next_id + 1]
                  IN  [st |-> st1,
                       fs |-> save_to_file(st1, fs, None, io).fs,
                       raised |-> "",
                       id |-> Val(r.task).id,
                       io |-> io]

\* update_task that calls save_to_file before it reports an unknown id.
update_task_saves_unknown(st, fs, task_id, name, description, due_date, status, io) ==
    LET i == get_task_by_id(st.tasks, task_id)
    IN  IF i = 0
        THEN [st |-> st, fs |-> save_to_file(st, fs, None, io).fs, raised |-> "",
              ret |-> FALSE, io |-> io]
        ELSE LET r == TaskUpdate(st.tasks[i], name, description, due_date, status)
                 st1 == [st EXCEPT !.tasks[i] = r.task]
             IN  IF r.raised # ""
                 THEN [st |-> st1, fs |-> fs, raised |-> r.raised, ret |-> FALSE,
                       io |-> "none"]
                 ELSE [st |-> st1,
                       fs |-> save_to_file(st1, fs, None, io).fs,
                       raised |-> "", ret |-> TRUE, io |-> io]

\* TaskManager.update_task: [st, fs, raised, ret, io].  When Task.update
\* raises, the exception leaves update_task before save_to_file is reached.
update_task(st, fs, task_id, name, description, due_date, status, io) ==
    LET i == get_task_by_id(st.tasks, task_id)
    IN  IF i = 0
        THEN [st |-> st, fs |-> fs, raised |-> "", ret |-> FALSE, io |-> "none"]
        ELSE LET r == TaskUpdate(st.tasks[i], name, description, due_date, status)
                 st1 == [st EXCEPT !.tasks[i] = r.task]
             IN  IF r.raised # ""
                 THEN [st |-> st1, fs |-> fs, raised |-> r.raised, ret |-> FALSE,
                       io |-> "none"]
                 ELSE [st |-> st1,
                       fs |-> save_to_file(st1, fs, None, io).fs,
                       raised |-> "", ret |-> TRUE, io |-> io]

\* delete_task without the save_to_file call.
delete_task_unsaved(st, fs, task_id, io) ==
    LET i == get_task_by_id(st.tasks, task_id)
    IN  IF i = 0
        THEN [st |-> st, fs |-> fs, ret |-> FALSE, io |-> "none"]
        ELSE [st |-> [st EXCEPT !.tasks = RemoveAt(st.tasks, i)],
              fs |-> fs, ret |-> TRUE, io |-> "none"]

\* TaskManager.delete_task: [st, fs, ret, io].
delete_task(st, fs, task_id, io) ==
    LET i == get_task_by_id(st.tasks, task_id)
    IN  IF i = 0
        THEN [st |-> st, fs |-> fs, ret |-> FALSE, io |-> "none"]
        ELSE LET st1 == [st EXCEPT !.tasks = RemoveAt(st.tasks, i)]
             IN  [st |-> st1,
                  fs |-> save_to_file(st1, fs, None, io).fs,
                  ret |-> TRUE, io |-> io]

\* clear_all_tasks without the assignment next_id = 1.
clear_all_tasks_keeps_counter(st, fs, io) ==
    LET st1 == [tasks |-> <<>>, next_id |-> st.next_id]
    IN  [st |-> st1,
         fs |-> save_to_file(st1, fs, None, io).fs,
         ret |-> TRUE, io |-> io]

\* TaskManager.clear_all_tasks: [st, fs, ret, io].
clear_all_tasks(st, fs, io) ==
    LET st1 == [tasks |-> <<>>, next_id |-> 1]
    IN  [st |-> st1,
         fs |-> save_to_file(st1, fs, None, io).fs,
         ret |-> TRUE, io |-> io]

\* ----------------------------------------------------------------- queries
\* str.lower on one character and on a string.
lower_char(c) == CASE c = "A" -> "a" [] c = "B" -> "b" [] OTHER -> c

lower(s) == [i \in 1..Len(s) |-> lower_char(s[i])]

\* part in text, for strings: the scan for the first position where part
\* starts.
RECURSIVE In(_, _)
In(part, text) ==
    IF Len(part) > Len(text) THEN FALSE
    ELSE IF SubSeq(text, 1, Len(part)) = part THEN TRUE
    ELSE In(part, Tail(text))

\* datetime < datetime
Before(a, b) == a.s < b.s \/ (a.s = b.s /\ a.us < b.us)

\* list_tasks that returns the list of the store itself.
list_tasks_no_copy(st) == [items |-> st.tasks, shared |-> TRUE]

\* TaskManager.list_tasks: the returned list object.  items are its
\* elements; shared tells whether it is the very list object the store
\* keeps in self.tasks, so that changing the one changes the other.
list_tasks(st) == [items |-> st.tasks, shared |-> FALSE]

\* The truth value Python gives an optional string argument: None and the
\* empty string are false.  empty is the empty string in the form the
\* argument is written in ("" for a status, <<>> for a text).
Truthy(o, empty) == ~IsNone(o) /\ Val(o) # empty

\* filter_tasks whose text criterion also looks into the description.
filter_tasks_any_text(ts, status, due_date_from, due_date_to, name_contains) ==
    LET ByStatus(t) == t.status = Val(status)
        f1 == IF Truthy(status, "") THEN SelectSeq(ts, ByStatus) ELSE ts
        NotBefore(t) == ~Before(t.due_date, Val(due_date_from))
        f2 == IF ~IsNone(due_date_from) THEN SelectSeq(f1, NotBefore) ELSE f1
        NotAfter(t) == ~Before(Val(due_date_to), t.due_date)
        f3 == IF ~IsNone(due_date_to) THEN SelectSeq(f2, NotAfter) ELSE f2
        ByText(t) == \/ In(lower(Val(name_contains)), lower(t.name))
                     \/ In(lower(Val(name_contains)), lower(t.description))
    IN  IF Truthy(name_contains, <<>>) THEN SelectSeq(f3, ByText) ELSE f3

\* TaskManager.filter_tasks: the four criteria are applied one after the
\* other to a copy of the collection, each only when its argument is true
\* in Python's sense (a datetime always is).
filter_tasks(ts, status, due_date_from, due_date_to, name_contains) ==
    LET ByStatus(t) == t.status = Val(status)
        f1 == IF Truthy(status, "") THEN SelectSeq(ts, ByStatus) ELSE ts
        NotBefore(t) == ~Before(t.due_date, Val(due_date_from))
        f2 == IF ~IsNone(due_date_from) THEN SelectSeq(f1, NotBefore) ELSE f1
        NotAfter(t) == ~Before(Val(due_date_to), t.due_date)
        f3 == IF ~IsNone(due_date_to) THEN SelectSeq(f2, NotAfter) ELSE f2
        ByName(t) == In(lower(Val(name_contains)), lower(t.name))
    IN  IF Truthy(name_contains, <<>>) THEN SelectSeq(f3, ByName) ELSE f3

\* TaskManager.get_tasks_by_status
get_tasks_by_status(ts, status) == filter_tasks(ts, Some(status), None, None, None)

\* search_tasks that does not lower the query.
search_tasks_exact_query(ts, query) ==
    LET Hit(t) == In(query, lower(t.name)) \/ In(query, lower(t.description))
    IN  SelectSeq(ts, Hit)

\* TaskManager.search_tasks
search_tasks(ts, query) ==
    LET q == lower(query)
        Hit(t) == In(q, lower(t.name)) \/ In(q, lower(t.description))
    IN  SelectSeq(ts, Hit)

\* get_overdue_tasks that takes a task due exactly now as overdue.
get_overdue_tasks_inclusive(ts, now) ==
    LET Overdue(t) == ~Before(now, t.due_date) /\ t.status # "completada"
    IN  SelectSeq(ts, Overdue)

\* TaskManager.get_overdue_tasks, the clock read as now.
get_overdue_tasks(ts, now) ==
    LET Overdue(t) == Before(t.due_date, now) /\ t.status # "completada"
    IN  SelectSeq(ts, Overdue)

\* The loop of get_task_statistics: stats[task.status] += 1 for each task,
\* a KeyError when the status is not a key of stats.  [raised, stats].
RECURSIVE Tally(_, _)
Tally(ts, stats) ==
    IF ts = <<>> THEN [raised |-> "", stats |-> stats]
    ELSE IF Head(ts).status \notin DOMAIN stats
    THEN [raised |-> ErrKey, stats |-> stats]
    ELSE Tally(Tail(ts), [stats EXCEPT ![Head(ts).status] = @ + 1])

\* get_task_statistics that counts as vencidas every task due before now.
get_task_statistics_all_due(ts, now) ==
    LET Due(t) == Before(t.due_date, now)
    IN  Tally(ts, [total |-> Len(ts), pendiente |-> 0, en_progreso |-> 0,
                   completada |-> 0, vencidas |-> Len(SelectSeq(ts, Due))])

\* TaskManager.get_task_statistics: [raised, stats].
get_task_statistics(ts, now) ==
    Tally(ts, [total |-> Len(ts), pendiente |-> 0, en_progreso |-> 0,
               completada |-> 0, vencidas |-> Len(get_overdue_tasks(ts, now))])

ErrZeroDivision == "ZeroDivisionError"

\* (completada / total) * 100 as the format .1f prints it, in tenths of a
\* percent: [raised, value].
CompletionRate(completada, total) ==
    IF total = 0 THEN [raised |-> ErrZeroDivision, value |-> 0]
    ELSE [raised |-> "", value |-> (2000 * completada + total) \div (2 * total)]

\* show_statistics that computes the rate whatever the total.
show_statistics_unguarded(ts, now) ==
    LET r == get_task_statistics(ts, now)
        c == CompletionRate(r.stats.completada, r.stats.total)
    IN  IF r.raised # ""
        THEN [raised |-> r.raised, stats |-> r.stats, rate |-> None]
        ELSE IF c.raised # ""
        THEN [raised |-> c.raised, stats |-> r.stats, rate |-> None]
        ELSE [raised |-> "", stats |-> r.stats, rate |-> Some(c.value)]

\* TaskCLI.show_statistics: [raised, stats, rate]; stats are the five
\* numbers printed, rate is the completion rate printed after them, None
\* when that line is not printed.
show_statistics(ts, now) ==
    LET r == get_task_statistics(ts, now)
        c == CompletionRate(r.stats.completada, r.stats.total)
    IN  IF r.raised # ""
        THEN [raised |-> r.raised, stats |-> r.stats, rate |-> None]
        ELSE IF r.stats.total > 0
        THEN IF c.raised # ""
             THEN [raised |-> c.raised, stats |-> r.stats, rate |-> None]
             ELSE [raised |-> "", stats |-> r.stats, rate |-> Some(c.value)]
        ELSE [raised |-> "", stats |-> r.stats, rate |-> None]

\* --------------------------------------------------------------------- CLI
\* str.lower on the status texts a user types.
lower_status(status) ==
    CASE status = "PENDIENTE" -> "pendiente"
      [] status = "COMPLETADA" -> "completada"
      [] OTHER -> status

\* utils.validate_status
validate_status(status) ==
    lower_status(status) \in {"pendiente", "en_progreso", "completada"}

\* TaskCLI.create_task with the texts typed for name, description and
\* status, the date left blank: [st, fs, raised, id, io].  raised is the
\* ValueError of the store that the CLI catches and prints.
cli_create_task(st, fs, name, description, status, now, io) ==
    IF strip(name) = <<>>
    THEN [st |-> st, fs |-> fs, raised |-> "", id |-> 0, io |-> "none"]
    ELSE LET typed == IF status = "" THEN "pendiente" ELSE status
             checked == IF validate_status(typed) THEN typed ELSE "pendiente"
         IN  create_task(st, fs, strip(name), strip(description), None, checked,
                         now, io)

\* TaskCLI.update_task with the id and the texts typed for name and status,
\* description and date left blank: [st, fs, raised, ret, io].
cli_update_task(st, fs, task_id, name, status, io) ==
    IF get_task_by_id(st.tasks, task_id) = 0
    THEN [st |-> st, fs |-> fs, raised |-> "", ret |-> FALSE, io |-> "none"]
    ELSE update_task(st, fs, task_id,
                     IF strip(name) = <<>> THEN None ELSE Some(strip(name)),
                     None, None,
                     IF status # "" /\ validate_status(status)
                     THEN Some(status) ELSE None,
                     io)

\* ------------------------------------------------------------------ inputs
\* Largest number of times the environment interferes in one behaviour: it
\* makes a file write fail, or it rewrites the data file itself.
MaxFaults == 1

D0 == [s |-> 0, us |-> 0]
D1 == [s |-> 1, us |-> 0]

\* Arguments of create_task: the defaults with a name and a description to
\* trim, a blank name, an empty name, a status outside the valid set.
CreateArgs ==
    { [name |-> <<" ", "a", " ">>, description |-> <<"d", " ">>, due_date |-> None,
       status |-> "pendiente"],
      [name |-> <<" ", " ">>, description |-> <<>>, due_date |-> None,
       status |-> "pendiente"],
      [name |-> <<>>, description |-> <<"d">>, due_date |-> Some(D0),
       status |-> "completada"],
      [name |-> <<"a">>, description |-> <<>>, due_date |-> None,
       status |-> "cancelada"] }

\* Arguments of update_task: a valid status together with a new description
\* and due date, and an invalid status together with a new name.
ValidUpdate ==
    [name |-> None, description |-> Some(<<"e">>), due_date |-> Some(D1),
     status |-> Some("en_progreso")]

InvalidUpdate ==
    [name |-> Some(<<"b">>), description |-> None, due_date |-> None,
     status |-> Some("cancelada")]

UpdateArgs == {ValidUpdate, InvalidUpdate}

\* Arguments of update_task that give only the status completada.
CompleteUpdate ==
    [name |-> None, description |-> None, due_date |-> None,
     status |-> Some("completada")]

\* Arguments of update_task that give only a new name, a blank one.
BlankNameUpdate ==
    [name |-> Some(<<" ">>), description |-> None, due_date |-> None,
     status |-> None]

TaskIds == 1..MaxId

\* Records another program may have put in a file.
GoodRecord(id) ==
    [id |-> id, name |-> <<"x">>, description |-> <<>>,
     due_date |-> <<"T", 0>>, status |-> "pendiente", created_at |-> <<"T", 0, ".", 1>>]

NoStatusRecord(id) ==
    [id |-> id, name |-> <<"x">>, due_date |-> <<"T", 0>>,
     created_at |-> <<"T", 0>>]

BadStatusRecord(id) == [GoodRecord(id) EXCEPT !.status = "cancelada"]

\* File contents that do not come from save_to_file: not JSON; a stale
\* counter; a repeated id; a record without status (and no counter) or with
\* an invalid status after a well-formed one.
ForeignContents ==
    { Garbage,
      Json([next_id |-> 1, tasks |-> <<GoodRecord(2), GoodRecord(1)>>]),
      Json([next_id |-> 2, tasks |-> <<GoodRecord(1), GoodRecord(1)>>]),
      Json([tasks |-> <<GoodRecord(1), NoStatusRecord(2)>>]),
      Json([next_id |-> 3, tasks |-> <<GoodRecord(2), BadStatusRecord(1)>>]) }

\* Tasks a store can hold, as create_task and update_task leave them: names
\* and descriptions in both cases, the three statuses, due dates before, at
\* and after the first reading of the clock.
QueryTask(id) ==
    { [id |-> id, name |-> <<"A", "b">>, description |-> <<>>,
       due_date |-> D0, status |-> "pendiente", created_at |-> Now(0)],
      [id |-> id, name |-> <<"b">>, description |-> <<"a", "B">>,
       due_date |-> Now(0), status |-> "en_progreso", created_at |-> Now(0)],
      [id |-> id, name |-> <<"x">>, description |-> <<"b">>,
       due_date |-> D0, status |-> "completada", created_at |-> Now(0)],
      [id |-> id, name |-> <<"B", "a">>, description |-> <<"b">>,
       due_date |-> D1, status |-> "pendiente", created_at |-> Now(0)] }

\* The collections of such tasks with ids in 1..n in increasing order.
RECURSIVE QueryCollections(_)
QueryCollections(n) ==
    IF n = 0 THEN {<<>>}
    ELSE LET shorter == QueryCollections(n - 1)
         IN  shorter \cup {Append(c, t) : c \in shorter, t \in QueryTask(n)}

\* Arguments of filter_tasks: each criterion absent or given, the two
\* strings also given empty.
FilterArgs ==
    [status : {None, Some(""), Some("en_progreso")},
     due_date_from : {None, Some(Now(0))},
     due_date_to : {None, Some(Now(0))},
     name_contains : {None, Some(<<>>), Some(<<"B">>)}]

\* Arguments of search_tasks.
SearchArgs == {<<>>, <<"B">>, <<"a", "b">>}

\* Status texts typed at the CLI: valid, valid but for the case, invalid,
\* and nothing.
StatusInputs == {"pendiente", "COMPLETADA", "cancelada", ""}

\* Name texts typed at the CLI when updating: nothing, and a new name.
NameInputs == {<<>>, <<"b", " ">>}

\* What the caller of list_tasks may do to the list it received.
ListEdits == {"append", "remove", "reverse"}

\* Largest number of changes the caller makes to one returned list.
MaxEdits == 2

\* ------------------------------------------------------------------- state
VARIABLES
    tasks,     \* TaskManager.tasks
    next_id,   \* TaskManager.next_id
    files,     \* the file system: path -> content
    clock,     \* the wall clock
    faults,    \* interferences of the environment so far
    last,      \* what the last call was and how it ended
    h          \* history: what has happened since the store was created

vars == <<tasks, next_id, files, clock, faults, last, h>>

Store == [tasks |-> tasks, next_id |-> next_id]

\* last.op    the operation called
\* last.raised the exception it raised, "" if it returned
\* last.ok    its boolean result (create_task: a task was returned)
\* last.id    create_task: the id of the returned task; update/delete: the id asked for
\* last.io    the outcome of the file write it attempted, "none" if it attempted none
Called(op, raised, ok, id, io) ==
    [op |-> op, raised |-> raised, ok |-> ok, id |-> id, io |-> io]

\* h.cud      only create_task, update_task and delete_task were called so far
\* h.created  successful create_task calls so far, counted while h.cud
\* h.durable  only create/update/delete/save and re-openings happened, every
\*            write of the data file succeeded and nothing else wrote it
\* h.assigned ids create_task returned so far, in order, recorded while h.durable
\* h.alien    paths whose content was not written by the store
\* h.pure     no file with content not written by the store was ever loaded
\* h.deleted  None, or in a behaviour that records deletions Some of
\*            [ever |-> the ids delete_task has returned True for,
\*             sinceClear |-> those among them since the last clear_all_tasks]
Init ==
    /\ tasks = <<>>
    /\ next_id = 1
    /\ files = [p \in Paths |-> Absent]
    /\ clock = 0
    /\ faults = 0
    /\ last = Called("init", "", TRUE, 0, "none")
    /\ h = [cud |-> TRUE, created |-> 0, durable |-> TRUE, assigned |-> <<>>,
            alien |-> {}, pure |-> TRUE, deleted |-> None]

\* The same store after construction, in a behaviour that records deletions.
InitDelete ==
    /\ tasks = <<>>
    /\ next_id = 1
    /\ files = [p \in Paths |-> Absent]
    /\ clock = 0
    /\ faults = 0
    /\ last = Called("init", "", TRUE, 0, "none")
    /\ h = [cud |-> TRUE, created |-> 0, durable |-> TRUE, assigned |-> <<>>,
            alien |-> {}, pure |-> TRUE,
            deleted |-> Some([ever |-> {}, sinceClear |-> {}])]

\* The write outcomes the environment may still produce.
Io == IF faults < MaxFaults THEN IoOutcomes ELSE {"ok"}

Faults(io) == IF io \in {"open_fails", "write_fails"} THEN faults + 1 ELSE faults

\* The history after a call of create/update/delete that ended with write
\* outcome io and, for a successful create_task, returned id (0 otherwise).
AfterMutation(io, id) ==
    LET dur == h.durable /\ io \in {"none", "ok"}
    IN  [h EXCEPT !.created = IF h.cud /\ id # 0 THEN @ + 1 ELSE @,
                  !.durable = dur,
                  !.assigned = IF ~dur THEN <<>> ELSE IF id # 0 THEN Append(@, id) ELSE @,
                  !.alien = IF io \in {"ok", "write_fails"} THEN @ \ {data_file} ELSE @]

\* The history hh after delete_task(task_id) returned ret.
Deleted(hh, task_id, ret) ==
    IF IsNone(hh.deleted) \/ ~ret THEN hh
    ELSE [hh EXCEPT !.deleted =
             Some([ever |-> Val(@).ever \cup {task_id},
                   sinceClear |-> Val(@).sinceClear \cup {task_id}])]

\* A store that holds one of the query collections, saved in its data file.
InitQuery ==
    /\ tasks \in QueryCollections(MaxId)
    /\ next_id = MaxId + 1
    /\ files = [p \in Paths |->
                  IF p = data_file THEN Json(Document(Store)) ELSE Absent]
    /\ clock = 0
    /\ faults = 0
    /\ last = Called("init", "", TRUE, 0, "none")
    /\ h = [cud |-> FALSE, created |-> 0, durable |-> FALSE, assigned |-> <<>>,
            alien |-> {}, pure |-> TRUE, deleted |-> None]

\* What a query was called with and what it returned.
Answered(op, args, out) ==
    [op |-> op, raised |-> "", ok |-> TRUE, id |-> 0, io |-> "none",
     args |-> args, out |-> out]

\* ----------------------------------------------------------------- actions
\* create_task(name, description, due_date, status)
CreateTask(ios) ==
    /\ next_id <= MaxId
    /\ \E a \in CreateArgs, io \in ios :
          LET r == create_task(Store, files, a.name, a.description, a.due_date,
                               a.status, Now(clock), io)
          IN  /\ tasks' = r.st.tasks
              /\ next_id' = r.st.next_id
              /\ files' = r.fs
              /\ faults' = Faults(r.io)
              /\ last' = Called("create_task", r.raised, r.raised = "", r.id, r.io)
              /\ h' = AfterMutation(r.io, r.id)
    /\ UNCHANGED clock

\* update_task(task_id, name, description, due_date, status)
UpdateTask(ios, args) ==
    /\ \E task_id \in TaskIds, a \in args, io \in ios :
          LET r == update_task(Store, files, task_id, a.name, a.description,
                               a.due_date, a.status, io)
          IN  /\ tasks' = r.st.tasks
              /\ next_id' = r.st.next_id
              /\ files' = r.fs
              /\ faults' = Faults(r.io)
              /\ last' = Called("update_task", r.raised, r.ret, task_id, r.io)
              /\ h' = AfterMutation(r.io, 0)
    /\ UNCHANGED clock

\* delete_task(task_id)
DeleteTask(ios) ==
    /\ \E task_id \in TaskIds, io \in ios :
          LET r == delete_task(Store, files, task_id, io)
          IN  /\ tasks' = r.st.tasks
              /\ next_id' = r.st.next_id
              /\ files' = r.fs
              /\ faults' = Faults(r.io)
              /\ last' = Called("delete_task", "", r.ret, task_id, r.io)
              /\ h' = Deleted(AfterMutation(r.io, 0), task_id, r.ret)
    /\ UNCHANGED clock

\* clear_all_tasks()
ClearAllTasks(ios) ==
    /\ \E io \in ios :
          LET r == clear_all_tasks(Store, files, io)
          IN  /\ tasks' = r.st.tasks
              /\ next_id' = r.st.next_id
              /\ files' = r.fs
              /\ faults' = Faults(r.io)
              /\ last' = Called("clear_all_tasks", "", r.ret, 0, r.io)
              /\ h' = [h EXCEPT !.cud = FALSE, !.created = 0,
                                !.durable = FALSE, !.assigned = <<>>,
                                !.alien = IF r.io \in {"ok", "write_fails"}
                                          THEN @ \ {data_file} ELSE @,
                                !.deleted = IF IsNone(@) THEN @
                                            ELSE Some([Val(@) EXCEPT
                                                       !.sinceClear = {}])]
    /\ UNCHANGED clock

\* save_to_file() on the configured data file
SaveToFile(ios) ==
    /\ \E io \in ios :
          LET r == save_to_file(Store, files, None, io)
          IN  /\ files' = r.fs
              /\ faults' = Faults(io)
              /\ last' = Called("save_to_file", "", r.ret, 0, io)
              /\ h' = [AfterMutation(io, 0) EXCEPT !.cud = FALSE, !.created = 0]
    /\ UNCHANGED <<tasks, next_id, clock>>

\* load_from_file() on the configured data file
LoadFromFile ==
    /\ LET r == load_from_file(Store, files, None, Now(clock))
       IN  /\ tasks' = r.st.tasks
           /\ next_id' = r.st.next_id
           /\ last' = Called("load_from_file", r.raised, r.ret, 0, "none")
           /\ h' = [h EXCEPT !.cud = FALSE, !.created = 0,
                             !.durable = FALSE, !.assigned = <<>>,
                             !.pure = @ /\ data_file \notin h.alien]
    /\ UNCHANGED <<files, clock, faults>>

\* The program ends and a later run constructs TaskManager(data_file).
Reopen ==
    /\ LET r == TaskManagerInit(files, Now(clock))
       IN  /\ tasks' = r.st.tasks
           /\ next_id' = r.st.next_id
           /\ last' = Called("__init__", r.raised, r.ret, 0, "none")
           /\ h' = [h EXCEPT !.cud = FALSE, !.created = 0,
                             !.pure = @ /\ data_file \notin h.alien]
    /\ UNCHANGED <<files, clock, faults>>

\* Something other than the store writes the data file.
ExternalWrite ==
    /\ faults < MaxFaults
    /\ faults' = faults + 1
    /\ \E c \in ForeignContents :
          /\ files' = [files EXCEPT ![data_file] = c]
          /\ last' = Called("external_write", "", TRUE, 0, "none")
          /\ h' = [h EXCEPT !.durable = FALSE, !.assigned = <<>>,
                            !.alien = @ \cup {data_file}]
    /\ UNCHANGED <<tasks, next_id, clock>>

\* Time passes.
Tick ==
    /\ clock < MaxTime
    /\ clock' = clock + 1
    /\ UNCHANGED <<tasks, next_id, files, faults, last, h>>

\* Normal operation: every file write succeeds and only the store writes
\* the files.
Next ==
    \/ CreateTask({"ok"})
    \/ UpdateTask({"ok"}, UpdateArgs)
    \/ DeleteTask({"ok"})
    \/ ClearAllTasks({"ok"})
    \/ SaveToFile({"ok"})
    \/ LoadFromFile
    \/ Reopen
    \/ Tick

Spec == Init /\ [][Next]_vars

\* Operation in an environment that interferes: file writes may fail and
\* the data file may be rewritten from outside.
NextEnv ==
    \/ CreateTask(Io)
    \/ UpdateTask(Io, {ValidUpdate})
    \/ DeleteTask(Io)
    \/ ClearAllTasks(Io)
    \/ SaveToFile(Io)
    \/ LoadFromFile
    \/ Reopen
    \/ ExternalWrite

SpecEnv == Init /\ [][NextEnv]_vars

\* Normal operation of a store whose tasks are renamed with a blank name.
NextRename ==
    \/ CreateTask({"ok"})
    \/ UpdateTask({"ok"}, {BlankNameUpdate, ValidUpdate})
    \/ DeleteTask({"ok"})
    \/ Reopen

SpecRename == Init /\ [][NextRename]_vars

\* list_tasks that hands out the list and leaves the store with a new,
\* empty one.
ListTasksDraining ==
    /\ LET l == list_tasks(Store)
       IN  last' = Answered("list_tasks", <<>>,
                            [items |-> l.items, shared |-> l.shared, edits |-> 0])
    /\ tasks' = <<>>
    /\ UNCHANGED <<next_id, files, clock, faults, h>>

\* list_tasks()
ListTasks ==
    /\ LET l == list_tasks(Store)
       IN  last' = Answered("list_tasks", <<>>,
                            [items |-> l.items, shared |-> l.shared, edits |-> 0])
    /\ UNCHANGED <<tasks, next_id, files, clock, faults, h>>

\* The caller appends an element of its own (an object with id 0) to the
\* list list_tasks returned, removes
\* its first element, or reverses it.  When that list is the list of the
\* store, the store sees the change.
EditList(items, edit) ==
    CASE edit = "append" -> Append(items, [id |-> 0])
      [] edit = "remove" -> IF items = <<>> THEN items ELSE Tail(items)
      [] edit = "reverse" -> [i \in 1..Len(items) |-> items[Len(items) + 1 - i]]

EditReturnedList ==
    /\ last.op \in {"list_tasks", "edit_returned_list"}
    /\ last.out.edits < MaxEdits
    /\ \E edit \in ListEdits :
          LET items == EditList(last.out.items, edit)
          IN  /\ last' = [last EXCEPT !.op = "edit_returned_list",
                                      !.args = edit,
                                      !.out.items = items,
                                      !.out.edits = @ + 1]
              /\ tasks' = IF last.out.shared THEN items ELSE tasks
    /\ UNCHANGED <<next_id, files, clock, faults, h>>

\* get_task_by_id(task_id)
GetTaskById ==
    /\ \E task_id \in TaskIds :
          last' = Answered("get_task_by_id", task_id, get_task_by_id(tasks, task_id))
    /\ UNCHANGED <<tasks, next_id, files, clock, faults, h>>

\* A store that is only read, and a caller that changes the lists it gets.
NextList ==
    \/ ListTasks
    \/ EditReturnedList
    \/ GetTaskById

SpecList == InitQuery /\ [][NextList]_vars

\* filter_tasks(status, due_date_from, due_date_to, name_contains)
FilterTasks ==
    /\ \E a \in FilterArgs :
          last' = Answered("filter_tasks", a,
                           filter_tasks(tasks, a.status, a.due_date_from,
                                        a.due_date_to, a.name_contains))
    /\ UNCHANGED <<tasks, next_id, files, clock, faults, h>>

\* search_tasks(query)
SearchTasks ==
    /\ \E query \in SearchArgs :
          last' = Answered("search_tasks", query, search_tasks(tasks, query))
    /\ UNCHANGED <<tasks, next_id, files, clock, faults, h>>

\* get_overdue_tasks(); args is the time the call read from the clock.
GetOverdueTasks ==
    /\ last' = Answered("get_overdue_tasks", Now(clock),
                        get_overdue_tasks(tasks, Now(clock)))
    /\ UNCHANGED <<tasks, next_id, files, clock, faults, h>>

\* get_task_statistics()
GetTaskStatistics ==
    /\ LET r == get_task_statistics(tasks, Now(clock))
       IN  last' = [Answered("get_task_statistics", Now(clock), r.stats)
                    EXCEPT !.raised = r.raised, !.ok = r.raised = ""]
    /\ UNCHANGED <<tasks, next_id, files, clock, faults, h>>

\* TaskCLI.show_statistics()
ShowStatistics ==
    /\ LET r == show_statistics(tasks, Now(clock))
       IN  last' = [Answered("show_statistics", Now(clock),
                             [stats |-> r.stats, rate |-> r.rate])
                    EXCEPT !.raised = r.raised, !.ok = r.raised = ""]
    /\ UNCHANGED <<tasks, next_id, files, clock, faults, h>>

\* A store that is queried while time passes.
NextQuery ==
    \/ FilterTasks
    \/ SearchTasks
    \/ GetOverdueTasks
    \/ GetTaskStatistics
    \/ ShowStatistics
    \/ Tick

SpecQuery == InitQuery /\ [][NextQuery]_vars

\* TaskCLI.export_tasks with the default file name: save_to_file(backup_file)
ExportTasks ==
    /\ LET r == save_to_file(Store, files, Some(backup_file), "ok")
       IN  /\ files' = r.fs
           /\ last' = Called("export_tasks", "", r.ret, 0, "ok")
           /\ h' = [h EXCEPT !.cud = FALSE, !.created = 0,
                             !.alien = @ \ {backup_file}]
    /\ UNCHANGED <<tasks, next_id, clock, faults>>

\* TaskCLI.import_tasks of that file, confirmed: load_from_file(backup_file)
ImportTasks ==
    /\ LET r == load_from_file(Store, files, Some(backup_file), Now(clock))
       IN  /\ tasks' = r.st.tasks
           /\ next_id' = r.st.next_id
           /\ last' = Called("import_tasks", r.raised, r.ret, 0, "none")
           /\ h' = [h EXCEPT !.cud = FALSE, !.created = 0,
                             !.durable = FALSE, !.assigned = <<>>,
                             !.pure = @ /\ backup_file \notin h.alien]
    /\ UNCHANGED <<files, clock, faults>>

\* The arguments update_task is called with in SpecUpdate: the name alone,
\* the status alone, and the other two fields with a status.
FieldUpdates == {BlankNameUpdate, CompleteUpdate, ValidUpdate}

\* Normal operation of a store whose tasks are updated field by field.
NextUpdate ==
    \/ CreateTask({"ok"})
    \/ UpdateTask({"ok"}, FieldUpdates)
    \/ Reopen
    \/ Tick

SpecUpdate == Init /\ [][NextUpdate]_vars

\* get_tasks_by_status(status)
GetTasksByStatus ==
    /\ \E status \in VALID_STATUSES :
          last' = Answered("get_tasks_by_status", status,
                           get_tasks_by_status(tasks, status))
    /\ UNCHANGED <<tasks, next_id, files, clock, faults, h>>

\* The read operations of the store.
ReadOps ==
    {"get_task_by_id", "list_tasks", "filter_tasks", "get_tasks_by_status",
     "search_tasks", "get_overdue_tasks", "get_task_statistics"}

\* A store on which only the read operations are called.
NextRead ==
    \/ GetTaskById
    \/ ListTasks
    \/ FilterTasks
    \/ GetTasksByStatus
    \/ SearchTasks
    \/ GetOverdueTasks
    \/ GetTaskStatistics

SpecRead == InitQuery /\ [][NextRead]_vars

\* TaskCLI.create_task
CliCreateTask ==
    /\ next_id <= MaxId
    /\ \E status \in StatusInputs :
          LET r == cli_create_task(Store, files, <<"a">>, <<>>, status,
                                   Now(clock), "ok")
          IN  /\ tasks' = r.st.tasks
              /\ next_id' = r.st.next_id
              /\ files' = r.fs
              /\ last' = Called("cli_create_task", r.raised, r.raised = "", r.id, r.io)
              /\ h' = AfterMutation(r.io, r.id)
    /\ UNCHANGED <<clock, faults>>

\* TaskCLI.update_task
CliUpdateTask ==
    /\ \E task_id \in TaskIds, name \in NameInputs, status \in StatusInputs :
          LET r == cli_update_task(Store, files, task_id, name, status, "ok")
          IN  /\ tasks' = r.st.tasks
              /\ next_id' = r.st.next_id
              /\ files' = r.fs
              /\ last' = Called("cli_update_task", r.raised, r.ret, task_id, r.io)
              /\ h' = AfterMutation(r.io, 0)
    /\ UNCHANGED <<clock, faults>>

\* The store driven through the CLI.
NextCli ==
    \/ CliCreateTask
    \/ CliUpdateTask
    \/ DeleteTask({"ok"})
    \/ Reopen

SpecCli == Init /\ [][NextCli]_vars

\* Normal operation with exports to and imports from the backup file.
NextPort ==
    \/ CreateTask({"ok"})
    \/ DeleteTask({"ok"})
    \/ ExportTasks
    \/ ImportTasks
    \/ LoadFromFile
    \/ Reopen

SpecPort == Init /\ [][NextPort]_vars

\* Normal operation, the deletions recorded.
NextDelete ==
    \/ CreateTask({"ok"})
    \/ UpdateTask({"ok"}, {InvalidUpdate})
    \/ DeleteTask({"ok"})
    \/ ClearAllTasks({"ok"})
    \/ SaveToFile({"ok"})
    \/ LoadFromFile
    \/ Reopen

SpecDelete == InitDelete /\ [][NextDelete]_vars

\* ------------------------------------------------------------------ claims
Ids(ts) == {ts[i].id : i \in 1..Len(ts)}

\* C1: starting from an empty store, while only create_task, update_task and
\* delete_task have been called (failed calls included), the k-th successful
\* create_task returns the task with id k.
C1_SequentialIds ==
    (last.op = "create_task" /\ last.raised = "" /\ h.cud) => last.id = h.created

\* C1 witness: the second successful create returned id 2 after the first
\* task had been deleted.
C1_Witness ==
    /\ last.op = "create_task" /\ last.raised = "" /\ h.cud
    /\ h.created = 2
    /\ Len(tasks) = 1

\* C2: an update_task call that raises the invalid-status error leaves every
\* field of every task as it was before the call.
C2_UpdateAllOrNothing ==
    [][(last'.op = "update_task" /\ last'.raised = ErrInvalidStatus)
         => tasks' = tasks]_vars

\* The data file holds what save_to_file writes for the store as it is now,
\* and a TaskManager constructed on it holds the same collection and counter.
InSync ==
    /\ files[data_file] = Json(Document(Store))
    /\ TaskManagerInit(files, Now(clock)).st = Store

\* C3: when a call of create_task, update_task, delete_task or
\* clear_all_tasks has changed tasks or next_id and no file write failed,
\* the data file is in sync with the store when the call ends.
C3_FileInSync ==
    [][(/\ last'.op \in {"create_task", "update_task", "delete_task",
                         "clear_all_tasks"}
        /\ (tasks' # tasks \/ next_id' # next_id)
        /\ last'.io \in {"none", "ok"})
         => InSync']_vars

\* A TaskManager was just constructed on a data file that is not JSON.
OpenedOnGarbage ==
    last.op = "__init__" /\ files[data_file].kind = "garbage"

\* C4: constructing a TaskManager on a file that is not valid JSON does not
\* raise and gives an empty collection with next_id = 1, and a create_task
\* that follows and returns a task returns the task with id 1, alone in the
\* collection.
C4_GarbageOpen ==
    /\ [](OpenedOnGarbage => (last.raised = "" /\ tasks = <<>> /\ next_id = 1))
    /\ [][(OpenedOnGarbage /\ last'.op = "create_task" /\ last'.raised = "")
            => (last'.id = 1 /\ Ids(tasks') = {1} /\ Len(tasks') = 1)]_vars

\* C4 witness: a store that was constructed on a non-JSON file.
C4_Witness ==
    OpenedOnGarbage /\ tasks = <<>> /\ next_id = 1 /\ last.raised = ""

\* The content exists and is not a document load_from_file reads to its end.
Malformed(c) ==
    \/ c.kind = "garbage"
    \/ /\ c.kind = "json"
       /\ "tasks" \in DOMAIN c.data
       /\ \E i \in 1..Len(c.data.tasks) :
             from_dict(c.data.tasks[i], Now(clock)).raised # ""

\* C5: load_from_file on a malformed file reports failure without raising
\* and leaves an empty collection with next_id = 1.
C5_MalformedLoadEmpties ==
    (last.op = "load_from_file" /\ Malformed(files[data_file]))
        => (~last.ok /\ last.raised = "" /\ tasks = <<>> /\ next_id = 1)

\* The fields of a task that the round trip must preserve.
SameTask(t, u) ==
    /\ t.id = u.id
    /\ t.name = u.name
    /\ t.description = u.description
    /\ t.status = u.status
    /\ t.due_date = u.due_date

\* Saving the store to path and loading that file into a manager holding st0.
RoundTrip(st0, path) ==
    load_from_file(st0, save_to_file(Store, files, Some(path), "ok").fs,
                   Some(path), Now(clock))

\* C6: saving the store and loading the written file, in the same or in a
\* new TaskManager, succeeds and gives the same tasks (id, name,
\* description, status, due_date) in the same order and the same next_id.
C6_RoundTrip ==
    \A st0 \in {Store, EmptyStore}, path \in Paths :
        LET r == RoundTrip(st0, path)
        IN  /\ r.ret /\ r.raised = ""
            /\ r.st.next_id = next_id
            /\ Len(r.st.tasks) = Len(tasks)
            /\ \A i \in 1..Len(tasks) : SameTask(r.st.tasks[i], tasks[i])

\* C6 witness: a store re-opened from the file it had saved, holding a task
\* whose due date has no fraction and a task whose due date has one.
C6_Witness ==
    /\ last.op = "__init__" /\ last.ok
    /\ files[data_file] = Json(Document(Store))
    /\ Len(tasks) = 2
    /\ tasks[1].due_date.us = 0
    /\ tasks[2].due_date.us # 0

\* C7: a create_task call that raises (empty or blank name, invalid status)
\* appends no task, leaves next_id unchanged and writes no file.
C7_FailedCreate ==
    [][(last'.op = "create_task" /\ last'.raised # "")
         => (/\ tasks' = tasks
             /\ next_id' = next_id
             /\ files' = files
             /\ last'.io = "none")]_vars

\* C7 witness: create_task has just raised on a store that holds a task.
C7_Witness ==
    /\ last.op = "create_task"
    /\ last.raised = ErrEmptyName
    /\ Len(tasks) = 1
    /\ next_id = 2

\* C8: over create, update, delete and re-openings of the store from its
\* data file, each id create_task returns is greater than every id it
\* returned before, so no id is assigned twice.
C8_IdsNeverReused ==
    h.durable =>
        \A i, j \in 1..Len(h.assigned) : i < j => h.assigned[i] < h.assigned[j]

\* C8 witness: the task with the highest id was deleted, the store was
\* re-opened, and the next create_task returned a greater id.
C8_Witness ==
    /\ h.durable /\ ~h.cud
    /\ last.op = "create_task"
    /\ h.assigned = <<1, 2>>
    /\ Ids(tasks) = {2}

\* C9: next_id is greater than the id of every task in the collection.
C9_NextIdAboveIds ==
    \A i \in 1..Len(tasks) : tasks[i].id < next_id

\* C9 witness: a load that succeeded on a file whose stored counter was not
\* above its task ids.
C9_Witness ==
    /\ last.op = "load_from_file" /\ last.ok
    /\ files[data_file].kind = "json"
    /\ "next_id" \in DOMAIN files[data_file].data
    /\ files[data_file].data.next_id = 1
    /\ Len(tasks) = 2

\* C10: while every file loaded was written by the store, no two tasks of
\* the collection have the same id.
C10_UniqueIds ==
    h.pure => \A i, j \in 1..Len(tasks) : i # j => tasks[i].id # tasks[j].id

\* C10 witness: two tasks loaded from a file the store wrote.
C10_Witness ==
    /\ h.pure
    /\ last.op = "load_from_file" /\ last.ok
    /\ Len(tasks) = 2

\* C11: the status of every task in the collection is one of pendiente,
\* en_progreso, completada; a record with another status is rejected by
\* Task.from_dict, whatever create_task and update_task were called with.
C11_StatusValid ==
    /\ \A i \in 1..Len(tasks) : tasks[i].status \in VALID_STATUSES
    /\ \A id \in TaskIds :
          from_dict(BadStatusRecord(id), Now(clock)).raised = ErrInvalidStatus

\* C11 witness: update_task with status cancelada has just raised on a task
\* that an earlier update had moved to en_progreso.
C11_Witness ==
    /\ last.op = "update_task" /\ last.raised = ErrInvalidStatus
    /\ Len(tasks) = 1
    /\ tasks[1].status = "en_progreso"

\* C12: the name of every task in the collection is non-empty after
\* trimming, whatever names create_task and update_task were called with.
C12_NameNeverBlank ==
    \A i \in 1..Len(tasks) : strip(tasks[i].name) # <<>>

C14_UnknownId ==
    /\ [](\A id \in TaskIds \ Ids(tasks) : get_task_by_id(tasks, id) = 0)
    /\ [][(/\ clock' = clock
           /\ last'.op \in {"update_task", "delete_task"}
           /\ last'.id \notin Ids(tasks))
            => (/\ ~last'.ok /\ last'.raised = "" /\ last'.io = "none"
                /\ tasks' = tasks
                /\ next_id' = next_id
                /\ files' = files)]_vars

\* C14 witness: update_task has returned False for an id no task has, on a
\* store that holds a task which the data file shows under another name.
C14_Witness ==
    /\ last.op = "update_task" /\ ~last.ok /\ last.raised = ""
    /\ last.id \notin Ids(tasks)
    /\ Len(tasks) = 1
    /\ files[data_file] # Json(Document(Store))

\* C15: list_tasks returns the whole collection in its order, and when the
\* caller appends to, removes from or reverses the returned list, list_tasks,
\* get_task_by_id and len of the store report afterwards what they reported
\* before.
C15_ListIsCopy ==
    /\ [](last.op = "list_tasks" => last.out.items = tasks)
    /\ [][last'.op = "edit_returned_list"
            => (/\ list_tasks(Store').items = list_tasks(Store).items
                /\ \A id \in TaskIds :
                      get_task_by_id(tasks', id) = get_task_by_id(tasks, id)
                /\ Len(tasks') = Len(tasks))]_vars

\* C15 witness: the caller holds a list it has changed, longer than the
\* collection of the store it came from.
C15_Witness ==
    /\ last.op = "edit_returned_list"
    /\ Len(last.out.items) > Len(tasks)
    /\ Len(tasks) = 2

\* The positions of the collection whose tasks satisfy Keep, and the
\* statement that out is the tasks at those positions in their order.
IsSelection(out, keep) ==
    /\ Len(out) = Cardinality(keep)
    /\ \A k \in 1..Len(out) :
          \E i \in keep : /\ out[k] = tasks[i]
                          /\ Cardinality({j \in keep : j < i}) = k - 1

\* text contains part when the case of the letters is ignored.
ContainsNoCase(text, part) ==
    \E k \in 0..(Len(text) - Len(part)) :
        \A i \in 1..Len(part) : lower_char(text[k + i]) = lower_char(part[i])

\* A criterion counts as supplied when it is neither None nor empty.
Supplied(o, empty) == Len(o) = 1 /\ o[1] # empty

\* Task i of the collection satisfies every supplied criterion of a.
Satisfies(i, a) ==
    /\ Supplied(a.status, "") => tasks[i].status = Val(a.status)
    /\ Len(a.due_date_from) = 1 =>
          \/ tasks[i].due_date = Val(a.due_date_from)
          \/ Before(Val(a.due_date_from), tasks[i].due_date)
    /\ Len(a.due_date_to) = 1 =>
          \/ tasks[i].due_date = Val(a.due_date_to)
          \/ Before(tasks[i].due_date, Val(a.due_date_to))
    /\ Supplied(a.name_contains, <<>>) =>
          ContainsNoCase(tasks[i].name, Val(a.name_contains))

\* C16: filter_tasks returns exactly the tasks that satisfy every supplied
\* criterion (status equal, due date not before due_date_from, not after
\* due_date_to, name containing the text whatever the case), in the order of
\* the collection; a criterion that is None or empty restricts nothing and
\* the description plays no part.
C16_FilterExact ==
    last.op = "filter_tasks" =>
        IsSelection(last.out, {i \in 1..Len(tasks) : Satisfies(i, last.args)})

\* C16 witness: a filter on status, both dates and the name has returned one
\* of two tasks, the other one having the text in its description only.
C16_Witness ==
    /\ last.op = "filter_tasks"
    /\ Supplied(last.args.status, "") /\ Supplied(last.args.name_contains, <<>>)
    /\ Len(last.args.due_date_from) = 1 /\ Len(last.args.due_date_to) = 1
    /\ Len(tasks) = 2 /\ Len(last.out) = 1
    /\ \E i \in 1..2 : /\ ContainsNoCase(tasks[i].description, <<"B">>)
                        /\ ~ContainsNoCase(tasks[i].name, <<"B">>)

\* C17: search_tasks returns exactly the tasks whose name or description
\* contains the query whatever the case, in the order of the collection.
C17_SearchExact ==
    last.op = "search_tasks" =>
        IsSelection(last.out,
                    {i \in 1..Len(tasks) :
                        \/ ContainsNoCase(tasks[i].name, last.args)
                        \/ ContainsNoCase(tasks[i].description, last.args)})

\* C17 witness: a search with a capital letter has returned one task for
\* its name and one for its description.
C17_Witness ==
    /\ last.op = "search_tasks" /\ last.args = <<"B">>
    /\ Len(last.out) = 2
    /\ ~ContainsNoCase(last.out[1].description, <<"B">>)
    /\ ~ContainsNoCase(last.out[2].name, <<"B">>)

\* C18: get_overdue_tasks called at time now returns exactly the tasks whose
\* due date is before now and differs from now and whose status is not
\* completada, in the order of the collection.
C18_OverdueExact ==
    last.op = "get_overdue_tasks" =>
        IsSelection(last.out,
                    {i \in 1..Len(tasks) :
                        /\ tasks[i].due_date # last.args
                        /\ \/ tasks[i].due_date.s < last.args.s
                           \/ /\ tasks[i].due_date.s = last.args.s
                              /\ tasks[i].due_date.us <= last.args.us
                        /\ tasks[i].status # "completada"})

\* C18 witness: of a task due earlier and a task due exactly at the time of
\* the call, only the first was returned.
C18_Witness ==
    /\ last.op = "get_overdue_tasks"
    /\ Len(tasks) = 2 /\ Len(last.out) = 1
    /\ \E i \in 1..2 : tasks[i].due_date = last.args /\ tasks[i].status # "completada"

\* C19: get_task_statistics returns without raising; total is the number of
\* tasks, each status count is the number of tasks with that status, the
\* three counts add up to total, and vencidas is the number of tasks
\* get_overdue_tasks returns.
C19_Statistics ==
    last.op = "get_task_statistics" =>
        /\ last.raised = ""
        /\ last.out.total = Len(tasks)
        /\ \A st \in VALID_STATUSES :
              last.out[st] = Cardinality({i \in 1..Len(tasks) : tasks[i].status = st})
        /\ last.out.pendiente + last.out.en_progreso + last.out.completada
              = last.out.total
        /\ last.out.vencidas = Len(get_overdue_tasks(tasks, last.args))
        /\ DOMAIN last.out = VALID_STATUSES \cup {"total", "vencidas"}

\* C19 witness: statistics of two tasks of which one is completed and was
\* due before the call.
C19_Witness ==
    /\ last.op = "get_task_statistics" /\ last.raised = ""
    /\ last.out.total = 2 /\ last.out.completada = 1
    /\ last.out.vencidas = 0
    /\ \E i \in 1..2 : Before(tasks[i].due_date, last.args)

\* rate, in tenths of a percent, is completada / total x 100 to the nearest
\* tenth.
IsRate(rate, completada, total) ==
    /\ 2 * (rate * total - 1000 * completada) <= total
    /\ 2 * (1000 * completada - rate * total) <= total

Cleared ==
    /\ tasks = <<>>
    /\ next_id = 1
    /\ files[data_file] = Json(Document(EmptyStore))

\* C21: clear_all_tasks returns True and leaves the collection empty,
\* next_id = 1 and that empty state in the data file, whatever the store
\* held; the store stays so until a create_task returns a task, and that
\* task has id 1.
C21_Clear ==
    /\ [](last.op = "clear_all_tasks" => (last.ok /\ last.raised = "" /\ Cleared))
    /\ [][(Cleared /\ ~(last'.op = "create_task" /\ last'.raised = ""))
            => Cleared']_vars
    /\ [][(Cleared /\ last'.op = "create_task" /\ last'.raised = "")
            => (last'.id = 1 /\ Ids(tasks') = {1})]_vars

\* C21 witness: clear_all_tasks has just returned True and written the
\* empty state.
C21_Witness ==
    /\ last.op = "clear_all_tasks" /\ last.ok /\ last.io = "ok"
    /\ Cleared

\* The path the last call loaded, for the calls that load a file.
LoadedPath ==
    IF last.op = "import_tasks" THEN backup_file ELSE data_file

\* C22: a load_from_file on a path that does not exist, be it the data file
\* or another file, returns True without raising and the collection is
\* empty afterwards.
C22_MissingLoadEmpty ==
    (/\ last.op \in {"load_from_file", "__init__", "import_tasks"}
     /\ files[LoadedPath].kind = "absent")
        => (last.ok /\ last.raised = "" /\ tasks = <<>>)

\* The write the call just made has failed.
WriteFailed == last'.io \in {"open_fails", "write_fails"}

\* C23: a save_to_file whose write fails returns False without raising and
\* leaves tasks and next_id as they were; when the failing write is the one
\* at the end of create_task, update_task, delete_task or clear_all_tasks,
\* the call does not raise and tasks and next_id are what the call had made
\* them before it saved.
C23_FailedSave ==
    [][WriteFailed =>
        /\ last'.raised = ""
        /\ last'.op = "save_to_file" =>
              (~last'.ok /\ tasks' = tasks /\ next_id' = next_id)
        /\ last'.op = "create_task" =>
              /\ next_id' = next_id + 1
              /\ Len(tasks') = Len(tasks) + 1
              /\ SubSeq(tasks', 1, Len(tasks)) = tasks
              /\ tasks'[Len(tasks')].id = next_id
        /\ last'.op = "update_task" =>
              /\ next_id' = next_id
              /\ Len(tasks') = Len(tasks)
              /\ \A i \in 1..Len(tasks) :
                    IF tasks[i].id = last'.id /\ last'.id \notin Ids(SubSeq(tasks, 1, i - 1))
                    THEN tasks'[i] = TaskUpdate(tasks[i], ValidUpdate.name,
                                               ValidUpdate.description,
                                               ValidUpdate.due_date,
                                               ValidUpdate.status).task
                    ELSE tasks'[i] = tasks[i]
        /\ last'.op = "delete_task" =>
              /\ next_id' = next_id
              /\ Len(tasks') = Len(tasks) - 1
              /\ \E i \in 1..Len(tasks) :
                    tasks[i].id = last'.id /\ tasks' = RemoveAt(tasks, i)
        /\ last'.op = "clear_all_tasks" => (tasks' = <<>> /\ next_id' = 1)]_vars

\* C23 witness: a save_to_file call has returned False on a store that holds
\* a task, the data file left truncated.
C23_Witness ==
    /\ last.op = "save_to_file" /\ ~last.ok /\ last.io = "write_fails"
    /\ files[data_file] = Garbage
    /\ Len(tasks) = 1

\* C24: a task whose status has become completada carries, in the object
\* and in the record to_dict writes, a completed_at that is set.
C24_CompletedAt ==
    \A i \in 1..Len(tasks) :
        tasks[i].status = "completada" =>
            /\ "completed_at" \in DOMAIN tasks[i]
            /\ "completed_at" \in DOMAIN to_dict(tasks[i])
            /\ tasks[i].completed_at # None

\* The task t with the fields a supplies set to a's values and every other
\* field as in t.
Expected(t, a) ==
    [id |-> t.id,
     created_at |-> t.created_at,
     name |-> IF a.name = None THEN t.name ELSE a.name[1],
     description |-> IF a.description = None THEN t.description ELSE a.description[1],
     due_date |-> IF a.due_date = None THEN t.due_date ELSE a.due_date[1],
     status |-> IF a.status = None THEN t.status ELSE a.status[1]]

\* C26: a Task.update or update_task that succeeds changes exactly the
\* supplied fields of the task with the id, to the supplied values, and
\* nothing else in the collection; no update, raising ones included,
\* changes the id or created_at of a task.
C26_UpdateFrame ==
    /\ [](\A i \in 1..Len(tasks), a \in FieldUpdates \cup {InvalidUpdate} :
            LET u == TaskUpdate(tasks[i], a.name, a.description, a.due_date, a.status)
                r == update_task(Store, files, tasks[i].id, a.name, a.description,
                                 a.due_date, a.status, "ok")
            IN  /\ u.task.id = tasks[i].id
                /\ u.task.created_at = tasks[i].created_at
                /\ u.raised = "" => u.task = Expected(tasks[i], a)
                /\ r.ret => /\ r.st.next_id = next_id
                            /\ r.st.tasks = [tasks EXCEPT ![i] = Expected(tasks[i], a)])
    /\ [][(clock' = clock /\ last'.op = "update_task" /\ last'.ok)
            => \E a \in FieldUpdates :
                  LET i == get_task_by_id(tasks, last'.id)
                  IN  /\ i # 0
                      /\ next_id' = next_id
                      /\ tasks' = [tasks EXCEPT ![i] = Expected(tasks[i], a)]]_vars

\* C26 witness: update_task has just succeeded on a task created at an
\* earlier time whose name and status were changed by separate updates and
\* whose description is still the one it was created with.
C26_Witness ==
    /\ last.op = "update_task" /\ last.ok /\ last.id = 1
    /\ Len(tasks) = 1
    /\ tasks[1].name = <<" ">> /\ tasks[1].status = "completada"
    /\ tasks[1].description = <<"d">>
    /\ tasks[1].created_at = Now(0) /\ clock = 1

\* The largest number of a non-empty set of numbers.
Max(S) == CHOOSE x \in S : \A y \in S : y <= x

\* The counter stored in a JSON document, 1 when it stores none.
StoredCounter(d) == IF "next_id" \in DOMAIN d THEN d.next_id ELSE 1

\* C25: after a load of the data file that succeeded, by load_from_file or
\* at construction, next_id is the larger of the counter stored in the file
\* and the largest loaded id plus one.
C25_NextIdAfterLoad ==
    (/\ last.op \in {"load_from_file", "__init__"} /\ last.ok
     /\ files[data_file].kind = "json")
        => next_id = Max({StoredCounter(files[data_file].data)}
                         \cup {tasks[i].id + 1 : i \in 1..Len(tasks)})

\* C25 witness: a store constructed on a file whose stored counter 1 is not
\* above its ids 2 and 1 has next_id = 3.
C25_Witness ==
    /\ last.op = "__init__" /\ last.ok
    /\ files[data_file].kind = "json"
    /\ StoredCounter(files[data_file].data) = 1
    /\ Ids(tasks) = {1, 2}
    /\ next_id = 3

C29_ValidatedAccepted ==
    /\ [](last.op \in {"cli_create_task", "cli_update_task"}
            => last.raised # ErrInvalidStatus)
    /\ [][last'.op = "cli_update_task"
            => (tasks' = tasks \/ (last'.ok /\ InSync'))]_vars

\* C30: load_from_file on a well-formed backup file returns True, makes
\* tasks and next_id those the file holds and writes no file, so the data
\* file keeps its content; save_to_file on the backup file writes the store
\* there and changes neither tasks, next_id nor the data file.
C30_ImportExport ==
    /\ [][(last'.op = "import_tasks" /\ files[backup_file].kind = "json")
            => (/\ last'.ok /\ last'.raised = ""
                /\ Document(Store') = files[backup_file].data
                /\ files' = files)]_vars
    /\ [][last'.op = "export_tasks"
            => (/\ last'.ok
                /\ tasks' = tasks
                /\ next_id' = next_id
                /\ files'[data_file] = files[data_file]
                /\ files'[backup_file] = Json(Document(Store)))]_vars

\* C30 witness: an import has replaced the store by the content of the
\* backup file, which differs from what the data file still holds.
C30_Witness ==
    /\ last.op = "import_tasks" /\ last.ok
    /\ files[backup_file] = Json(Document(Store))
    /\ files[data_file].kind = "json"
    /\ files[data_file] # files[backup_file]
    /\ Len(tasks) = 1

====
